---- MODULE Spec2Model ----
(***************************************************************************)
(* Stallings-folding model of SubgroupOfFreeGroup                          *)
(* (src/subgroup_of_free_group.py) over the reduced words of               *)
(* src/free_group.py.                                                      *)
(*                                                                         *)
(* A word is the list Word.word: a sequence of <<letter, power>> pairs,    *)
(* letters are 1..Rank in the order of their names ("a" = 1, "b" = 2).     *)
(* A graph object is a record: the vertices' fields (elem, forward_edges,  *)
(* backward_edges) indexed by Vertex.idx, the edges' fields indexed by     *)
(* Edge.idx, the basepoint, the pending glue list of _push_word and the    *)
(* Cached._cache dictionary.  A Python dict is the sequence of its         *)
(* <<key, value>> items in insertion order.                                *)
(***************************************************************************)
EXTENDS Integers, Sequences, FiniteSets, TLC

\* The free group of the tests: FreeGroup(("a", "b")).
Rank == 2

\* Longest relation word pushed by PushWord (in letters).
MaxLen == 2

\* Largest number of relation words pushed into one graph.
MaxRels == 2

\* Longest word handed to a query (contains_element, express, conjugate).
MaxQueryLen == 2

\* The number of factors of the products of relation words that are tried.
MaxProd == 2

\* Largest power of a generator among the generators of a second subgroup.
MaxPow == 2

\* The number of passes of the loop of normalization_in that are followed.
MaxPasses == 2

Letters == 1..Rank

\* Python's None where a Vertex.idx or Edge.idx is expected.
None == -1

-----------------------------------------------------------------------------
(* Reduced words: src/free_group.py, class Word                            *)

sign(n) == IF n < 0 THEN -1 ELSE 1

abs(n) == IF n < 0 THEN -n ELSE n

identity == <<>>

\* Word.add: merge with the last pair when the letter is the same, drop the
\* pair when its power becomes 0.
add(word, let, pow) ==
    IF Len(word) > 0 /\ word[Len(word)][1] = let
    THEN LET p == word[Len(word)][2] + pow
         IN  IF p = 0
             THEN SubSeq(word, 1, Len(word) - 1)
             ELSE [word EXCEPT ![Len(word)] = <<let, p>>]
    ELSE Append(word, <<let, pow>>)

RECURSIVE imul(_, _)
\* Word.__imul__: add the pairs of other one by one.
imul(self, other) ==
    IF other = <<>> THEN self
    ELSE imul(add(self, other[1][1], other[1][2]), Tail(other))

\* Word.__mul__
Mul(self, other) == imul(self, other)

RECURSIVE invert(_)
\* Word.__invert__: the pairs in reverse order with negated powers.
invert(self) ==
    IF self = <<>> THEN <<>>
    ELSE add(invert(Tail(self)), self[1][1], -self[1][2])

RECURSIVE Pow(_, _)
\* Word.__pow__ by repeated halving.
Pow(self, n) ==
    IF n = 0 THEN identity
    ELSE IF n < 0 THEN invert(Pow(self, -n))
    ELSE LET half_power == Pow(self, n \div 2)
         IN  IF n % 2 = 0
             THEN Mul(half_power, half_power)
             ELSE Mul(Mul(half_power, half_power), self)

is_identity(self) == self = <<>>

RECURSIVE length(_)
\* Word.length: the sum of the absolute powers.
length(self) ==
    IF self = <<>> THEN 0 ELSE abs(self[1][2]) + length(Tail(self))

Min(x, y) == IF x < y THEN x ELSE y

RECURSIVE lex_lt_from(_, _, _)
\* The loop of Word.lexicographically_lt from (1-based) position i.
lex_lt_from(self, other, i) ==
    IF i > Min(Len(self), Len(other)) THEN Len(self) < Len(other)
    ELSE LET let1 == self[i][1]
             pow1 == self[i][2]
             let2 == other[i][1]
             pow2 == other[i][2]
         IN  IF let1 = let2
             THEN IF pow1 = pow2 THEN lex_lt_from(self, other, i + 1)
                  ELSE IF sign(pow1) # sign(pow2) THEN pow1 > 0 /\ pow2 < 0
                  ELSE IF abs(pow2) < abs(pow1)
                       THEN IF Len(other) = i - 1 THEN FALSE
                            ELSE let1 < other[i + 1][1]
                       ELSE IF Len(self) = i - 1 THEN TRUE
                            ELSE self[i + 1][1] < let2
             ELSE let1 < let2

lexicographically_lt(self, other) == lex_lt_from(self, other, 1)

\* Word.__lt__: by length, then lexicographically.
lt(self, other) ==
    IF length(self) = length(other)
    THEN lexicographically_lt(self, other)
    ELSE length(self) < length(other)

\* Word.conjugate: other * self * ~other.
conjugate(self, other) == Mul(Mul(Mul(identity, other), self), invert(other))

\* commutator(a, b) = a * b * ~a * ~b
commutator(a, b) == Mul(Mul(Mul(a, b), invert(a)), invert(b))

\* FreeGroupGenerator(free_group, letter): the one-letter word.
Gen(let) == add(identity, let, 1)

\* FreeGroup.gens
FreeGroup_gens == [i \in 1..Rank |-> Gen(i)]

RECURSIVE Steps(_)
\* The unit steps <<gen, s>> that walk_word takes for a word:
\* for gen, pow in word: s = sign(pow); for _ in range(abs(pow)).
Steps(word) ==
    IF word = <<>> THEN <<>>
    ELSE LET gen == word[1][1]
             pow == word[1][2]
         IN  IF abs(pow) = 1
             THEN <<<<gen, sign(pow)>>>> \o Steps(Tail(word))
             ELSE <<<<gen, sign(pow)>>>>
                  \o Steps(<<<<gen, pow - sign(pow)>>>> \o Tail(word))

RECURSIVE paths(_)
\* FreeGroup.__iter__: the reduced words of exactly len letters.
paths(len) ==
    IF len = 0 THEN {identity}
    ELSE { x \in { add(w, g, s) : w \in paths(len - 1), g \in Letters,
                                   s \in {1, -1} } : length(x) = len }

\* list(F.__iter__(n)) as a set.
WordsUpTo(n) == UNION { paths(k) : k \in 0..n }

-----------------------------------------------------------------------------
(* Python dicts in insertion order                                         *)

\* dict.get(key): the value, or None.
DictGet(d, key) ==
    IF \E i \in 1..Len(d) : d[i][1] = key
    THEN d[CHOOSE i \in 1..Len(d) : d[i][1] = key][2]
    ELSE None

\* dict.pop(key) / del d[key]: the other items keep their order.
DictPop(d, key) == SelectSeq(d, LAMBDA item : item[1] # key)

\* d[key] = value for a key that is not in d: the item goes last.
DictSet(d, key, value) == Append(d, <<key, value>>)

\* Set iteration and set.pop() take the elements by increasing hash, which
\* for Vertex and Edge is their idx.
SetPop(S) == CHOOSE x \in S : \A y \in S : x <= y

RECURSIVE SetToSeq(_)
SetToSeq(S) ==
    IF S = {} THEN <<>>
    ELSE <<SetPop(S)>> \o SetToSeq(S \ {SetPop(S)})

-----------------------------------------------------------------------------
(* Vertex and Edge: src/subgroup_of_free_group.py lines 25-146             *)

\* Cached.__init__: an empty _cache.  An entry is <<>> when absent and
\* <<value>> when present.
EmptyCache == [vertices |-> <<>>, edges |-> <<>>,
               cycle_generators |-> <<>>, gens |-> <<>>]

\* SubgroupOfFreeGroup.__init__: a basepoint labelled identity, no edges.
\* vidx and eidx are the class counters Vertex.idx and Edge.idx at the call.
NewGraph(vidx, eidx) ==
    [elem |-> [v \in {vidx} |-> identity],
     forward_edges |-> [v \in {vidx} |-> <<>>],
     backward_edges |-> [v \in {vidx} |-> <<>>],
     edge |-> [e \in {} |-> [source |-> 0, elem |-> 0, target |-> 0]],
     identity_vertex |-> vidx,
     Vertex_idx |-> vidx + 1,
     Edge_idx |-> eidx,
     glues |-> <<>>,
     deleted |-> {},
     cache |-> EmptyCache,
     raised |-> ""]

\* Vertex.__init__(elem): a fresh vertex with the next idx and no edges.
Vertex(G, w) ==
    [G EXCEPT
       !.elem = (G.Vertex_idx :> w) @@ @,
       !.forward_edges = (G.Vertex_idx :> <<>>) @@ @,
       !.backward_edges = (G.Vertex_idx :> <<>>) @@ @,
       !.Vertex_idx = @ + 1]

\* Edge.__init__(source, elem, target): raises when the source already has
\* a forward edge, or the target a backward edge, with this generator;
\* otherwise enters the edge in both indices.
Edge(G, source, gen, target) ==
    LET n == G.Edge_idx
        G1 == [G EXCEPT
                 !.edge = (n :> [source |-> source, elem |-> gen,
                                 target |-> target]) @@ @,
                 !.Edge_idx = n + 1]
    IN  IF \/ DictGet(G.forward_edges[source], gen) # None
           \/ DictGet(G.backward_edges[target], gen) # None
        THEN [G1 EXCEPT !.raised = "Edge.__init__"]
        ELSE LET G2 == [G1 EXCEPT !.forward_edges[source] =
                                      DictSet(@, gen, n)]
             IN  [G2 EXCEPT !.backward_edges[target] = DictSet(@, gen, n)]

\* Edge.delete: pops the generator from the source's forward index and from
\* the target's backward index; raises when a popped entry is another edge
\* (ValueError) or is missing (KeyError of dict.pop).
Edge_delete(G, e) ==
    LET src == G.edge[e].source
        gen == G.edge[e].elem
        tgt == G.edge[e].target
        f == DictGet(G.forward_edges[src], gen)
        G1 == [G EXCEPT !.forward_edges[src] = DictPop(@, gen)]
        b == DictGet(G1.backward_edges[tgt], gen)
        G2 == [G1 EXCEPT !.backward_edges[tgt] = DictPop(@, gen)]
    IN  IF f = None THEN [G EXCEPT !.raised = "KeyError"]
        ELSE IF f # e THEN [G1 EXCEPT !.raised = "Edge.delete"]
        ELSE IF b = None THEN [G1 EXCEPT !.raised = "KeyError"]
        ELSE IF b # e THEN [G2 EXCEPT !.raised = "Edge.delete"]
        ELSE G2

\* Vertex.delete: raises when the vertex still has an edge.
Vertex_delete(G, v) ==
    IF G.forward_edges[v] # <<>> \/ G.backward_edges[v] # <<>>
    THEN [G EXCEPT !.raised = "Vertex.delete"]
    ELSE [G EXCEPT !.deleted = @ \cup {v}]

\* Vertex.observe_direction: <<edge, neighbour>>, or <<>> for None.
observe_direction(G, v, gen, s) ==
    IF s = 1
    THEN LET e == DictGet(G.forward_edges[v], gen)
         IN  IF e = None THEN <<>> ELSE <<e, G.edge[e].target>>
    ELSE LET e == DictGet(G.backward_edges[v], gen)
         IN  IF e = None THEN <<>> ELSE <<e, G.edge[e].source>>

\* observe_direction_violent that labels a vertex created backwards with
\* self.elem * gen.
observe_direction_violent_forward_label(G, v, gen, s) ==
    IF observe_direction(G, v, gen, s) # <<>>
    THEN [G |-> G, edge |-> observe_direction(G, v, gen, s)[1],
          vertex |-> observe_direction(G, v, gen, s)[2]]
    ELSE IF s = 1
    THEN [G |-> Edge(Vertex(G, Mul(G.elem[v], Gen(gen))),
                     v, gen, G.Vertex_idx),
          edge |-> G.Edge_idx, vertex |-> G.Vertex_idx]
    ELSE [G |-> Edge(Vertex(G, Mul(G.elem[v], Gen(gen))),
                     G.Vertex_idx, gen, v),
          edge |-> G.Edge_idx, vertex |-> G.Vertex_idx]

\* Vertex.observe_direction_violent: the existing direction, or a fresh
\* vertex labelled self.elem * gen (or * ~gen) joined by a fresh edge.
\* Returns the graph, the edge and the vertex.
observe_direction_violent(G, v, gen, s) ==
    LET dir == observe_direction(G, v, gen, s)
        new_vertex == G.Vertex_idx
        new_edge == G.Edge_idx
    IN  IF dir # <<>>
        THEN [G |-> G, edge |-> dir[1], vertex |-> dir[2]]
        ELSE IF s = 1
        THEN [G |-> Edge(Vertex(G, Mul(G.elem[v], Gen(gen))),
                         v, gen, new_vertex),
              edge |-> new_edge, vertex |-> new_vertex]
        ELSE [G |-> Edge(Vertex(G, Mul(G.elem[v], invert(Gen(gen)))),
                         new_vertex, gen, v),
              edge |-> new_edge, vertex |-> new_vertex]

\* Vertex.walk_edge: the neighbour, or None.
walk_edge(G, v, gen, s) ==
    LET dir == observe_direction(G, v, gen, s)
    IN  IF dir = <<>> THEN None ELSE dir[2]

RECURSIVE walk_steps(_, _, _, _)
\* The loop of Vertex.walk_word over the remaining unit steps.
walk_steps(G, vertex, steps, edges) ==
    IF steps = <<>> THEN [ok |-> TRUE, edges |-> edges, vertex |-> vertex]
    ELSE LET dir == observe_direction(G, vertex, steps[1][1], steps[1][2])
         IN  IF dir = <<>>
             THEN [ok |-> FALSE, edges |-> <<>>, vertex |-> None]
             ELSE walk_steps(G, dir[2], Tail(steps),
                             Append(edges, <<dir[1], steps[1][2]>>))

\* Vertex.walk_word: ok is FALSE for None, else the <<edge, sign>> list and
\* the end vertex.
walk_word(G, v, word) == walk_steps(G, v, Steps(word), <<>>)

\* One step of walk_word_violent: what observe_direction_violent returned,
\* appended to the walk so far.
walk_record(dir, edges, s) ==
    [G |-> dir.G, edges |-> Append(edges, <<dir.edge, s>>),
     vertex |-> dir.vertex]

RECURSIVE walk_steps_violent(_, _)
\* The loop of Vertex.walk_word_violent over the remaining unit steps; r is
\* the graph, the edges walked and the vertex reached so far.
walk_steps_violent(r, steps) ==
    IF steps = <<>> \/ r.G.raised # "" THEN r
    ELSE walk_steps_violent(
             walk_record(observe_direction_violent(r.G, r.vertex,
                                                   steps[1][1], steps[1][2]),
                         r.edges, steps[1][2]),
             Tail(steps))

\* self._identity_vertex.walk_word_violent(word)
walk_word_violent(G, word) ==
    walk_steps_violent([G |-> G, edges |-> <<>>,
                        vertex |-> G.identity_vertex],
                       Steps(word))

-----------------------------------------------------------------------------
(* The folding engine: SubgroupOfFreeGroup._push_word                      *)

\* Cached.flush
flush(G) == [G EXCEPT !.cache = EmptyCache]

\* schedule_glue that schedules nothing: the end of the walk stays apart
\* from the basepoint.
schedule_glue_none(r, basepoint) == r.G

\* glues = [(vertex, self._identity_vertex)] for the walk r.
schedule_glue(r, basepoint) ==
    [r.G EXCEPT !.glues = <<<<r.vertex, basepoint>>>>]

\* _push_word up to the glue loop: flush, walk the word from the basepoint
\* creating what is missing, schedule (endpoint, basepoint).
push_word_begin(G, word) ==
    schedule_glue(walk_word_violent(flush(G), word), G.identity_vertex)

\* glue_loop_edge that drops the loop edge of v0 and schedules nothing.
glue_loop_edge_dropped(G, v1, gen, v1_next, v1_prev) == G

\* The "annoying edgecase" of the forward loop, a loop edge at v0, after
\* the edge is deleted: schedule v1 with its gen-successor and its
\* gen-predecessor with v1, or make the loop at v1 when it has neither.
glue_loop_edge(G, v1, gen, v1_next, v1_prev) ==
    IF v1_prev = None /\ v1_next = None
    THEN Edge(G, v1, gen, v1)
    ELSE [G EXCEPT !.glues =
             @ \o (IF v1_next # None THEN <<<<v1, v1_next>>>> ELSE <<>>)
               \o (IF v1_prev # None
                   THEN <<<<G.edge[v1_prev].source, v1>>>>
                   ELSE <<>>)]

\* glue_forward_edge that drops an edge v1 already has instead of scheduling
\* the two targets to be glued.
glue_forward_edge_unscheduled(G, v0, v1, gen, target) ==
    IF G.raised # "" THEN G
    ELSE IF target = v0
    THEN glue_loop_edge(G, v1, gen, walk_edge(G, v1, gen, 1),
                        DictGet(G.backward_edges[v1], gen))
    ELSE IF walk_edge(G, v1, gen, 1) = None
    THEN Edge(G, v1, gen, target)
    ELSE G

\* The body of the forward loop after edge.delete(): G is the graph after
\* the deletion, target the target of the deleted edge.
glue_forward_edge(G, v0, v1, gen, target) ==
    IF G.raised # "" THEN G
    ELSE IF target = v0
    THEN glue_loop_edge(G, v1, gen, walk_edge(G, v1, gen, 1),
                        DictGet(G.backward_edges[v1], gen))
    ELSE IF walk_edge(G, v1, gen, 1) = None
    THEN Edge(G, v1, gen, target)
    ELSE [G EXCEPT !.glues = Append(@, <<target, walk_edge(G, v1, gen, 1)>>)]

RECURSIVE glue_forward(_, _, _, _)
\* for gen, edge in list(v0.forward_edges.items()): the remaining items.
glue_forward(G, v0, v1, items) ==
    IF items = <<>> \/ G.raised # "" THEN G
    ELSE IF G.edge[items[1][2]].elem # items[1][1]
    THEN [G EXCEPT !.raised = "AssertionError"]
    ELSE glue_forward(
             glue_forward_edge(Edge_delete(G, items[1][2]), v0, v1,
                               items[1][1], G.edge[items[1][2]].target),
             v0, v1, Tail(items))

\* glue_backward_edge that drops an edge v1 already has instead of
\* scheduling the two sources to be glued.
glue_backward_edge_unscheduled(G, v1, gen, source) ==
    IF G.raised # "" THEN G
    ELSE IF walk_edge(G, v1, gen, -1) = None
    THEN Edge(G, source, gen, v1)
    ELSE G

\* The body of the backward loop after edge.delete(): G is the graph after
\* the deletion, source the source of the deleted edge.
glue_backward_edge(G, v1, gen, source) ==
    IF G.raised # "" THEN G
    ELSE IF walk_edge(G, v1, gen, -1) = None
    THEN Edge(G, source, gen, v1)
    ELSE [G EXCEPT !.glues = Append(@, <<source, walk_edge(G, v1, gen, -1)>>)]

RECURSIVE glue_backward_no_lookup(_, _, _, _)
\* glue_backward that rehomes every backward edge onto v1 without looking
\* for an edge v1 already has.
glue_backward_no_lookup(G, v0, v1, items) ==
    IF items = <<>> \/ G.raised # "" THEN G
    ELSE glue_backward_no_lookup(
             Edge([Edge_delete(G, items[1][2]) EXCEPT !.raised = G.raised],
                  G.edge[items[1][2]].source, items[1][1], v1),
             v0, v1, Tail(items))

RECURSIVE glue_backward(_, _, _, _)
\* for gen, edge in list(v0.backward_edges.items()): the remaining items.
glue_backward(G, v0, v1, items) ==
    IF items = <<>> \/ G.raised # "" THEN G
    ELSE glue_backward(
             glue_backward_edge(Edge_delete(G, items[1][2]), v1,
                                items[1][1], G.edge[items[1][2]].source),
             v0, v1, Tail(items))

\* glue_order that never swaps: the first vertex of the pair is dropped.
glue_order_unswapped(G, pair) == pair

\* The survivor choice of a glue step: <<v0, v1>> with v0 the vertex that is
\* dropped; the pair is swapped when v0.elem < v1.elem.
glue_order(G, pair) ==
    IF lt(G.elem[pair[1]], G.elem[pair[2]])
    THEN <<pair[2], pair[1]>>
    ELSE pair

\* The rewrite of a pending pair after v0 is deleted.
glue_rename(pair, v0, v1) ==
    IF pair[1] = v0 /\ pair[2] = v0 THEN <<v1, v1>>
    ELSE IF pair[1] = v0 THEN <<pair[2], v1>>
    ELSE IF pair[2] = v0 THEN <<pair[1], v1>>
    ELSE pair

\* The end of a glue step, G the graph after v0.delete(): the pending pairs
\* are rewritten.
glue_renamed(G, v0, v1) ==
    IF G.raised # "" THEN G
    ELSE [G EXCEPT !.glues =
             [i \in 1..Len(G.glues) |-> glue_rename(G.glues[i], v0, v1)]]

\* The backward loop and v0.delete(), G the graph after the forward loop.
glue_backward_delete(G, v0, v1) ==
    IF G.raised # "" THEN G
    ELSE glue_renamed(
             Vertex_delete(glue_backward(G, v0, v1, G.backward_edges[v0]),
                           v0),
             v0, v1)

\* A glue step on the ordered pair <<v0, v1>>, G the graph after the pop.
glue_pair(G, v0, v1) ==
    glue_backward_delete(glue_forward(G, v0, v1, G.forward_edges[v0]),
                         v0, v1)

\* glues_pop that leaves the pair on the list.
glues_pop_kept(G) == G

\* glues.pop()
glues_pop(G) == [G EXCEPT !.glues = SubSeq(@, 1, Len(@) - 1)]

\* The body of "while glues" for the popped pair, G the graph after the pop.
glue_popped(G, popped) ==
    IF popped[1] = popped[2] THEN G
    ELSE glue_pair(G, glue_order(G, popped)[1], glue_order(G, popped)[2])

\* One iteration of "while glues" in _push_word.
glue_iteration(G) == glue_popped(glues_pop(G), G.glues[Len(G.glues)])

RECURSIVE glue_loop(_)
\* while glues: ...
glue_loop(G) ==
    IF G.glues = <<>> \/ G.raised # "" THEN G
    ELSE glue_loop(glue_iteration(G))

\* SubgroupOfFreeGroup._push_word, run to completion.
push_word(G, word) == glue_loop(push_word_begin(G, word))

\* push_words that stops after the first relation.
push_words_first(G, relations) ==
    IF relations = <<>> THEN G ELSE push_word(G, relations[1])

RECURSIVE push_words(_, _)
\* for relation in relations: res._push_word(relation)
push_words(G, relations) ==
    IF relations = <<>> \/ G.raised # "" THEN G
    ELSE push_words(push_word(G, relations[1]), Tail(relations))

\* SubgroupOfFreeGroup.from_relations with the class counters at the call.
from_relations(vidx, eidx, relations) ==
    push_words(NewGraph(vidx, eidx), relations)

\* SubgroupOfFreeGroup._full_subgroup
full_subgroup(vidx, eidx) == from_relations(vidx, eidx, FreeGroup_gens)

-----------------------------------------------------------------------------
(* Traversal, canonical labels and the basis                               *)

\* The values of a dict, in order.
DictValues(d) == [i \in 1..Len(d) |-> d[i][2]]

\* The vertices one edge away from v, forward or backward.
Neighbours(G, v) ==
    { G.edge[G.forward_edges[v][i][2]].target :
          i \in 1..Len(G.forward_edges[v]) }
    \cup { G.edge[G.backward_edges[v][i][2]].source :
          i \in 1..Len(G.backward_edges[v]) }

RECURSIVE vertices_from(_, _, _)
\* The loop of _vertices: res grows by the neighbours of the unchecked
\* vertices until none is new.
vertices_from(G, res, unchecked) ==
    IF unchecked = {} THEN res
    ELSE vertices_from(G,
             res \cup UNION { Neighbours(G, v) : v \in unchecked },
             UNION { Neighbours(G, v) : v \in unchecked } \ res)

\* The body of _vertices: everything reachable from the basepoint.
vertices_body(G) ==
    vertices_from(G, {G.identity_vertex}, {G.identity_vertex})

\* self._vertices() through cached_value: the graph after the call.
vertices_call(G) ==
    IF G.cache.vertices # <<>> THEN G
    ELSE [G EXCEPT !.cache.vertices = <<vertices_body(G)>>]

\* The value of self._vertices().
vertices(G) == vertices_call(G).cache.vertices[1]

\* The body of _edges over the vertex set vs: their forward edges.
edges_body(G, vs) ==
    UNION { { G.forward_edges[v][i][2] : i \in 1..Len(G.forward_edges[v]) } :
                v \in vs }

\* The body of _edges, G the graph after self._vertices().
edges_store(G) ==
    [G EXCEPT !.cache.edges = <<edges_body(G, G.cache.vertices[1])>>]

\* self._edges() through cached_value: the graph after the call.
edges_call(G) ==
    IF G.cache.edges # <<>> THEN G ELSE edges_store(vertices_call(G))

\* The value of self._edges().
edges(G) == edges_call(G).cache.edges[1]

\* One relaxation: the label of vertex v becomes suggestion when that is
\* smaller, and v is uncleared again.  st is the graph with the uncleared
\* set.
relax(st, v, suggestion) ==
    IF lt(suggestion, st.G.elem[v])
    THEN [G |-> [st.G EXCEPT !.elem[v] = suggestion],
          uncleared |-> st.uncleared \cup {v}]
    ELSE st

RECURSIVE relabel_forward(_, _)
\* for edge in v.forward_edges.values(): relax the target's label; todo are
\* the edges still to visit.
relabel_forward(st, todo) ==
    IF todo = <<>> THEN st
    ELSE relabel_forward(
             relax(st, st.G.edge[todo[1]].target,
                   Mul(st.G.elem[st.G.edge[todo[1]].source],
                       Gen(st.G.edge[todo[1]].elem))),
             Tail(todo))

\* relabel_backward that relaxes nothing: labels only travel forward.
relabel_backward_skipped(st, todo) == st

RECURSIVE relabel_backward(_, _)
\* for edge in v.backward_edges.values(): relax the source's label.
relabel_backward(st, todo) ==
    IF todo = <<>> THEN st
    ELSE relabel_backward(
             relax(st, st.G.edge[todo[1]].source,
                   Mul(st.G.elem[st.G.edge[todo[1]].target],
                       invert(Gen(st.G.edge[todo[1]].elem)))),
             Tail(todo))

\* The body of the while loop of _relabel for the popped vertex v.
relabel_vertex(st, v) ==
    relabel_backward(
        relabel_forward([G |-> st.G, uncleared |-> st.uncleared \ {v}],
                        DictValues(st.G.forward_edges[v])),
        DictValues(st.G.backward_edges[v]))

RECURSIVE relabel_loop(_)
\* while uncleared_vertices: pop a vertex and relax over its edges.
relabel_loop(st) ==
    IF st.uncleared = {} THEN st.G
    ELSE relabel_loop(relabel_vertex(st, SetPop(st.uncleared)))

\* relabel_start that leaves the labels as the folding left them.
relabel_start_skipped(G) == G

\* _relabel, G the graph after self._vertices().
relabel_start(G) ==
    relabel_loop([G |-> G, uncleared |-> G.cache.vertices[1]])

\* SubgroupOfFreeGroup._relabel: the graph after the call.
relabel(G) == relabel_start(vertices_call(G))

\* The word of an edge: source.elem * edge.elem * ~target.elem.
edge_value(G, e) ==
    Mul(Mul(G.elem[G.edge[e].source], Gen(G.edge[e].elem)),
        invert(G.elem[G.edge[e].target]))

\* cycle_generators_body that keeps the edges whose word is the identity.
cycle_generators_body_unfiltered(G, es) ==
    [i \in 1..Len(es) |-> <<es[i], edge_value(G, es[i])>>]

\* The dict built by _cycle_generators over the edges es: the edges whose
\* word is not the identity, with that word.
cycle_generators_body(G, es) ==
    SelectSeq([i \in 1..Len(es) |-> <<es[i], edge_value(G, es[i])>>],
              LAMBDA item : ~is_identity(item[2]))

\* The body of _cycle_generators, G the graph after _relabel and _edges.
cycle_generators_store(G) ==
    [G EXCEPT !.cache.cycle_generators =
                  <<cycle_generators_body(G, SetToSeq(G.cache.edges[1]))>>]

\* self._cycle_generators() through cached_value: the graph after the call.
cycle_generators_call(G) ==
    IF G.cache.cycle_generators # <<>> THEN G
    ELSE cycle_generators_store(edges_call(relabel(G)))

\* The body of gens, G the graph after self._cycle_generators().
gens_store(G) ==
    [G EXCEPT !.cache.gens = <<DictValues(G.cache.cycle_generators[1])>>]

\* self.gens() through cached_value: the graph after the call.
gens_call(G) ==
    IF G.cache.gens # <<>> THEN G ELSE gens_store(cycle_generators_call(G))

\* The value of self.gens(): the tuple of basis words.
gens(G) == gens_call(G).cache.gens[1]

\* SubgroupOfFreeGroup.rank
rank(G) == Len(gens(G))

-----------------------------------------------------------------------------
(* Queries and combinators of SubgroupOfFreeGroup                          *)

\* The walk of contains_element ends at the basepoint.
closed_walk(G, path) == path.ok /\ path.vertex = G.identity_vertex

\* SubgroupOfFreeGroup.contains_element: the walk from the basepoint exists
\* and ends at the basepoint.
contains_element(G, elem) ==
    closed_walk(G, walk_word(G, G.identity_vertex, elem))

\* The result of walk_commensurable_word for the walk path.
commensurable(G, path) ==
    IF path.ok
    THEN [raised |-> "", value |-> G.elem[path.vertex]]
    ELSE [raised |-> "ValueError: not commensurable", value |-> identity]

\* SubgroupOfFreeGroup.walk_commensurable_word: the label of the vertex the
\* walk ends at; raises when the walk does not exist.
walk_commensurable_word(G, elem) ==
    commensurable(G, walk_word(G, G.identity_vertex, elem))

\* The word that express builds is a Word over basis words: add merges a
\* letter with an equal last letter and drops a power that becomes 0.
Word_add(word, let, pow) == add(word, let, pow)

\* The entries of the _cycle_generators dict for edge e: none or one.
cycle_generator_get(cycle_gens, e) ==
    SelectSeq(cycle_gens, LAMBDA item : item[1] = e)

\* express_add that forgets the direction in which the edge was traversed.
express_add_unsigned(word, found, s) ==
    IF found = <<>> THEN word ELSE Word_add(word, found[1][2], 1)

\* word.add(gen, sign) when the edge has an entry.
express_add(word, found, s) ==
    IF found = <<>> THEN word ELSE Word_add(word, found[1][2], s)

RECURSIVE express_word(_, _, _)
\* The loop of express: add the basis word of every traversed basis edge,
\* with the sign of the traversal.
express_word(cycle_gens, path_edges, word) ==
    IF path_edges = <<>> THEN word
    ELSE express_word(cycle_gens, Tail(path_edges),
             express_add(word,
                         cycle_generator_get(cycle_gens, path_edges[1][1]),
                         path_edges[1][2]))

\* express for the walk path: none for None, else the Word over basis
\* words.
express_path(G, path) ==
    IF ~closed_walk(G, path)
    THEN [none |-> TRUE, word |-> <<>>]
    ELSE [none |-> FALSE,
          word |-> express_word(
                       cycle_generators_call(G).cache.cycle_generators[1],
                       path.edges, <<>>)]

\* SubgroupOfFreeGroup.express
express(G, elem) == express_path(G, walk_word(G, G.identity_vertex, elem))

RECURSIVE evaluate(_)
\* w = identity; for g, n in word: w *= g**n  (src/tests.py lines 90-92)
evaluate(word) ==
    IF word = <<>> THEN identity
    ELSE Mul(evaluate(SubSeq(word, 1, Len(word) - 1)),
             Pow(word[Len(word)][1], word[Len(word)][2]))

\* Every word of the tuple ws walks back to the basepoint.
contains_all(G, ws) == \A i \in 1..Len(ws) : contains_element(G, ws[i])

\* SubgroupOfFreeGroup.contains_subgroup: every basis word of other is
\* contained.
contains_subgroup(G, other) == contains_all(G, gens(other))

\* SubgroupOfFreeGroup.__eq__ (both operands over the same free group).
Subgroup_eq(G, other) ==
    contains_subgroup(G, other) /\ contains_subgroup(other, G)

\* SubgroupOfFreeGroup.copy: a new graph built from the basis of self.
copy(G) == from_relations(G.Vertex_idx, G.Edge_idx, gens(G))

\* SubgroupOfFreeGroup.with_added_elements: the elements pushed on a copy.
with_added_elements(G, elements) == push_words(copy(G), elements)

\* conjugate_move that leaves the basepoint where it is.
conjugate_move_stay(r) == vertices_call(r.G)

\* conjugate after the walk r of ~elem: the basepoint moves to the end of
\* the walk, _vertices() is computed.
conjugate_move(r) == vertices_call([r.G EXCEPT !.identity_vertex = r.vertex])

\* conjugate after _vertices(): every label is multiplied by elem on the
\* left, the basepoint's label is reset.
conjugate_labels(G, elem) ==
    [G EXCEPT !.elem =
         [v \in DOMAIN G.elem |->
              IF v = G.identity_vertex THEN identity
              ELSE IF v \in G.cache.vertices[1] THEN Mul(elem, G.elem[v])
              ELSE G.elem[v]]]

\* Subgroup_conjugate that walks elem instead of ~elem.
Subgroup_conjugate_forward(G, elem) ==
    relabel(conjugate_labels(
                conjugate_move(walk_word_violent(copy(G), elem)),
                elem))

\* SubgroupOfFreeGroup.conjugate: copy, walk ~elem from the basepoint
\* creating what is missing, move the basepoint, rewrite the labels, relabel.
Subgroup_conjugate(G, elem) ==
    relabel(conjugate_labels(
                conjugate_move(walk_word_violent(copy(G), invert(elem))),
                elem))

\* SubgroupOfFreeGroup.is_empty
is_empty(G) == Cardinality(vertices(G)) = 1 /\ Cardinality(edges(G)) = 0

\* The comparison of has_finite_index_in for one vertex of other and the
\* walk of its label in self.
same_degrees(G, other, vertex, path) ==
    /\ Len(G.forward_edges[path.vertex]) = Len(other.forward_edges[vertex])
    /\ Len(G.backward_edges[path.vertex]) = Len(other.backward_edges[vertex])

\* The body of the loop of has_finite_index_in: "assert" when the label
\* does not walk in self, else whether the degrees agree.
projected(G, other, vertex, path) ==
    IF ~path.ok THEN "assert"
    ELSE IF same_degrees(G, other, vertex, path) THEN "same"
    ELSE "differ"

RECURSIVE finite_index_loop(_, _, _)
\* for vertex in other._vertices(): project the vertex's label into self and
\* compare the numbers of forward and of backward edges.
finite_index_loop(G, other, todo) ==
    IF todo = <<>> THEN [raised |-> "", value |-> TRUE]
    ELSE CASE projected(G, other, todo[1],
                        walk_word(G, G.identity_vertex,
                                  other.elem[todo[1]])) = "assert"
                -> [raised |-> "AssertionError", value |-> FALSE]
           [] projected(G, other, todo[1],
                        walk_word(G, G.identity_vertex,
                                  other.elem[todo[1]])) = "differ"
                -> [raised |-> "", value |-> FALSE]
           [] OTHER -> finite_index_loop(G, other, Tail(todo))

\* SubgroupOfFreeGroup.has_finite_index_in, other a subgroup graph.
\* other._vertices() is a set of vertices hashed by idx, whose iteration
\* order depends on the values of the class counter, so the loop may start
\* at any vertex of other: first is the vertex it starts at.
has_finite_index_in(G, other, first) ==
    IF ~contains_subgroup(other, G)
    THEN [raised |-> "ValueError: must contain", value |-> FALSE]
    ELSE finite_index_loop(gens_call(G), other,
                           <<first>> \o SelectSeq(SetToSeq(vertices(other)),
                                                  LAMBDA v : v # first))

\* coset_labels without the filter: the labels of all vertices.
coset_labels_unfiltered(G, other, vs) == [i \in 1..Len(vs) |-> G.elem[vs[i]]]

\* [v.elem for v in self._vertices() if other.contains_element(v.elem)],
\* G the graph after self._relabel(), vs the vertices in iteration order.
coset_labels(G, other, vs) ==
    SelectSeq([i \in 1..Len(vs) |-> G.elem[vs[i]]],
              LAMBDA w : contains_element(other, w))

\* right_coset_representatives_in after its checks, fin the outcome of
\* has_finite_index_in (which raises first when other does not contain
\* self).
coset_representatives(G, other, fin) ==
    IF fin.raised # "" THEN [raised |-> fin.raised, value |-> <<>>]
    ELSE IF ~fin.value
    THEN [raised |-> "ValueError: must have finite index", value |-> <<>>]
    ELSE [raised |-> "",
          value |-> coset_labels(relabel(gens_call(G)), other,
                                 SetToSeq(vertices(G)))]

\* SubgroupOfFreeGroup.right_coset_representatives_in, other a subgroup
\* graph: the labels, after _relabel, of the vertices whose label other
\* contains.
right_coset_representatives_in(G, other, first) ==
    coset_representatives(G, other, has_finite_index_in(G, other, first))

\* The inverses of the words of a result.
inverses(right) ==
    [raised |-> right.raised,
     value |-> [i \in 1..Len(right.value) |-> invert(right.value[i])]]

\* SubgroupOfFreeGroup.left_coset_representatives_in
left_coset_representatives_in(G, other, first) ==
    inverses(right_coset_representatives_in(G, other, first))

\* len(...) of a result.
count(reps) == [raised |-> reps.raised, value |-> Len(reps.value)]

\* SubgroupOfFreeGroup.index_in, other a subgroup graph: the same checks as
\* right_coset_representatives_in, then the number of representatives.
index_in(G, other, first) ==
    count(right_coset_representatives_in(G, other, first))

\* conjugates_contained that conjugates by the first basis word of other
\* only.
conjugates_contained_first_only(G, gs, as) ==
    \A i \in 1..Len(gs) :
        /\ contains_element(G, conjugate(gs[i], as[1]))
        /\ contains_element(G, conjugate(gs[i], invert(as[1])))

\* The loops of is_normal_in over the basis gs of self and the basis as of
\* other: every conjugate, by a basis word of other and by its inverse, is
\* contained.
conjugates_contained(G, gs, as) ==
    \A i \in 1..Len(gs) : \A j \in 1..Len(as) :
        /\ contains_element(G, conjugate(gs[i], as[j]))
        /\ contains_element(G, conjugate(gs[i], invert(as[j])))

\* SubgroupOfFreeGroup.is_normal_in, other a subgroup graph.
is_normal_in(G, other) ==
    IF ~contains_subgroup(other, G)
    THEN [raised |-> "ValueError: must contain", value |-> FALSE]
    ELSE [raised |-> "",
          value |-> conjugates_contained(G, gens(G), gens(other))]

\* SubgroupOfFreeGroup.signed_gens: [g**s for g in gens for s in (-1, 1)]
signed_gens(G) ==
    [k \in 1..(2 * Len(gens(G))) |->
         Pow(gens(G)[(k + 1) \div 2], IF k % 2 = 1 THEN -1 ELSE 1)]

\* The words a.conjugate(b) of one pass of normalization_in, in the order
\* of "for a in res.gens(): for b in gens".
normalization_conjugates(as, bs) ==
    [k \in 1..(Len(as) * Len(bs)) |->
         conjugate(as[((k - 1) \div Len(bs)) + 1], bs[((k - 1) % Len(bs)) + 1])]

\* normalization_push that does not record that the pass pushed a word.
normalization_push_unrecorded(st, a_conj) ==
    IF contains_element(st.G, a_conj) THEN st
    ELSE [G |-> push_word(st.G, a_conj), normal |-> st.normal]

\* The body of the inner loop of normalization_in: a conjugate that res
\* does not contain is pushed and the pass is not normal.
normalization_push(st, a_conj) ==
    IF contains_element(st.G, a_conj) THEN st
    ELSE [G |-> push_word(st.G, a_conj), normal |-> FALSE]

RECURSIVE normalization_pushes(_, _)
\* The two for loops of one pass over the remaining conjugates.
normalization_pushes(st, todo) ==
    IF todo = <<>> \/ st.G.raised # "" THEN st
    ELSE normalization_pushes(normalization_push(st, todo[1]), Tail(todo))

RECURSIVE normalization_loop(_, _, _)
\* while True: st is res and the flag normal after the passes made so far.
\* The loop is followed for MaxPasses passes; returned is FALSE when it
\* then goes on.
normalization_loop(st, bs, passes) ==
    IF st.normal \/ st.G.raised # ""
    THEN [returned |-> TRUE, passes |-> passes, N |-> st.G]
    ELSE IF passes = MaxPasses
    THEN [returned |-> FALSE, passes |-> passes, N |-> st.G]
    ELSE normalization_loop(
             normalization_pushes(
                 [G |-> gens_call(st.G), normal |-> TRUE],
                 normalization_conjugates(gens(st.G), bs)),
             bs, passes + 1)

\* SubgroupOfFreeGroup.normalization_in, other a subgroup graph.
normalization_in(G, other) ==
    IF ~contains_subgroup(other, G)
    THEN [raised |-> "ValueError: not contained",
          value |-> [returned |-> TRUE, passes |-> 0, N |-> G]]
    ELSE [raised |-> "",
          value |-> normalization_loop([G |-> copy(G), normal |-> FALSE],
                                       signed_gens(other), 0)]

\* intersect_observe that looks the directions of the basepoints up with
\* observe_direction_violent.
intersect_observe_violent(X, images, gen, s) ==
    [X EXCEPT
       !.graphs = [i \in 1..Len(X.graphs) |->
                      IF images[i] = X.graphs[i].identity_vertex
                      THEN observe_direction_violent(X.graphs[i], images[i],
                                                     gen, s).G
                      ELSE X.graphs[i]],
       !.directions = [i \in 1..Len(X.graphs) |->
                          IF images[i] = X.graphs[i].identity_vertex
                          THEN <<observe_direction_violent(
                                     X.graphs[i], images[i], gen, s).edge,
                                 observe_direction_violent(
                                     X.graphs[i], images[i], gen, s).vertex>>
                          ELSE observe_direction(X.graphs[i], images[i],
                                                 gen, s)]]

\* individual_directions = tuple(v.observe_direction(gen, s) for v in
\* images).  X is the state of intersect_subgroups: res, the input graphs,
\* individual_directions, mapping_back and uncleared.
intersect_observe(X, images, gen, s) ==
    [X EXCEPT !.directions =
         [i \in 1..Len(X.graphs) |->
              observe_direction(X.graphs[i], images[i], gen, s)]]

\* The product vertex of individual_images is looked up in mapping_back, or
\* created, entered in mapping_back and in uncleared; then the edge joins
\* vertex and it.
intersect_join(X, vertex, gen, s, individual_images) ==
    IF DictGet(X.mapping_back, individual_images) # None
    THEN [X EXCEPT !.res =
             IF s = 1
             THEN Edge(@, vertex, gen,
                       DictGet(X.mapping_back, individual_images))
             ELSE Edge(@, DictGet(X.mapping_back, individual_images), gen,
                       vertex)]
    ELSE [X EXCEPT
            !.res = IF s = 1
                    THEN Edge(Vertex(@, Mul(@.elem[vertex], Pow(Gen(gen), s))),
                              vertex, gen, @.Vertex_idx)
                    ELSE Edge(Vertex(@, Mul(@.elem[vertex], Pow(Gen(gen), s))),
                              @.Vertex_idx, gen, vertex),
            !.mapping_back =
                DictSet(@, individual_images, X.res.Vertex_idx),
            !.uncleared =
                Append(@, <<X.res.Vertex_idx, individual_images>>)]

\* The body of the loops over gen and s after individual_directions is
\* computed: nothing when a component has no such direction.
intersect_edge(X, vertex, gen, s) ==
    IF \E i \in 1..Len(X.graphs) : X.directions[i] = <<>> THEN X
    ELSE intersect_join(X, vertex, gen, s,
                        [i \in 1..Len(X.graphs) |-> X.directions[i][2]])

\* intersect_direction that skips the backward directions.
intersect_direction_forward_only(X, vertex, images, gen, s) ==
    IF s = -1 \/ observe_direction(X.res, vertex, gen, s) # <<>> THEN X
    ELSE intersect_edge(intersect_observe(X, images, gen, s), vertex, gen, s)

\* The body of the loops over gen and s: a direction the product vertex
\* already has is skipped.
intersect_direction(X, vertex, images, gen, s) ==
    IF observe_direction(X.res, vertex, gen, s) # <<>> THEN X
    ELSE intersect_edge(intersect_observe(X, images, gen, s), vertex, gen, s)

RECURSIVE intersect_vertex(_, _, _, _)
\* for gen in free_group.gens(): for s in (-1, 1): the remaining <<gen, s>>.
intersect_vertex(X, vertex, images, todo) ==
    IF todo = <<>> THEN X
    ELSE intersect_vertex(
             intersect_direction(X, vertex, images, todo[1][1], todo[1][2]),
             vertex, images, Tail(todo))

RECURSIVE intersect_loop(_)
\* while uncleared: the pairs are popped in the order of their creation.
intersect_loop(X) ==
    IF X.uncleared = <<>> \/ X.res.raised # "" THEN X
    ELSE intersect_loop(
             intersect_vertex(
                 [X EXCEPT !.uncleared = Tail(@)],
                 Head(X.uncleared)[1], Head(X.uncleared)[2],
                 [k \in 1..(2 * Rank) |->
                      <<(k + 1) \div 2, IF k % 2 = 1 THEN -1 ELSE 1>>]))

\* SubgroupOfFreeGroup.intersect_subgroups with the class counters at the
\* call: the state of the construction when its loop ends.
intersect_subgroups(vidx, eidx, graphs) ==
    intersect_loop(
        [res |-> NewGraph(vidx, eidx),
         graphs |-> graphs,
         directions |-> <<>>,
         mapping_back |->
             <<<<[i \in 1..Len(graphs) |-> graphs[i].identity_vertex],
                 vidx>>>>,
         uncleared |->
             <<<<vidx,
                 [i \in 1..Len(graphs) |-> graphs[i].identity_vertex]>>>>])

\* core_intersection that intersects the first conjugate only.
core_intersection_first_only(G, left) ==
    IF left.raised # "" THEN [raised |-> left.raised, value |-> <<>>]
    ELSE [raised |-> "",
          value |-> intersect_subgroups(
                        G.Vertex_idx, G.Edge_idx,
                        <<Subgroup_conjugate(G, left.value[1])>>).res]

\* core_in after its checks, left the outcome of
\* left_coset_representatives_in (which makes the same checks and raises the
\* same errors first): the intersection of the conjugates of self by the
\* representatives.  Every graph has its own vertex and edge numbers.
core_intersection(G, left) ==
    IF left.raised # "" THEN [raised |-> left.raised, value |-> <<>>]
    ELSE [raised |-> "",
          value |-> intersect_subgroups(
                        G.Vertex_idx, G.Edge_idx,
                        [i \in 1..Len(left.value) |->
                             Subgroup_conjugate(G, left.value[i])]).res]

\* SubgroupOfFreeGroup.core_in, other a subgroup graph.
core_in(G, other, first) ==
    core_intersection(G, left_coset_representatives_in(G, other, first))

\* The ambient argument FreeGroup: other = _full_subgroup(other).
Ambient(G) == full_subgroup(G.Vertex_idx, G.Edge_idx)

\* K.index_in(H), H.index_in(F) and K.index_in(F), in this order, for
\* K = G and H = other; first is the vertex of H at which the loop of
\* K.has_finite_index_in(H) starts.
nested_indices(G, other, first) ==
    [inner |-> index_in(G, other, first),
     outer |-> index_in(other, Ambient(other), Ambient(other).identity_vertex),
     whole |-> index_in(G, Ambient(other), Ambient(other).identity_vertex)]

-----------------------------------------------------------------------------
(* Inputs                                                                  *)

a == Gen(1)

b == Gen(2)

\* The relation words of the bounded runs: list(F.__iter__(MaxLen)).
Words == WordsUpTo(MaxLen)

\* The words handed to contains_element, express and conjugate.
QueryWords == WordsUpTo(MaxQueryLen)

\* src/tests.py line 75, spec section 8 scenario 1.
RelationsS3 == <<Pow(a, 2), Pow(b, 3), commutator(a, b)>>

\* src/tests.py line 120, spec section 8 scenario 3.
RelationsIndex3 ==
    <<a, Pow(b, 2), conjugate(Pow(a, 2), b), conjugate(b, Mul(b, a))>>

\* src/tests.py lines 114-116: a normal subgroup of index 4.
RelationsNormal ==
    <<a, conjugate(a, b), conjugate(a, Pow(b, 2)), conjugate(a, Pow(b, 3)),
      Pow(b, 4)>>

\* The relation lists of test_subgroup_new_generators, src/tests.py 68-75.
TestLists ==
    { <<a, b>>,
      <<Mul(a, b), Mul(b, a)>>,
      <<Pow(Mul(a, b), 2), a>>,
      <<Pow(Mul(a, b), 3), b>>,
      <<Mul(Mul(b, a), invert(b)), Mul(Pow(a, 3), invert(b))>>,
      RelationsS3 }

\* The relation lists that are built besides the bounded ones.
Scenarios == TestLists \cup {RelationsIndex3, RelationsNormal}

ScenarioWords == UNION { { sc[i] : i \in 1..Len(sc) } : sc \in Scenarios }

\* The relation lists of a second subgroup, built next to H: the subgroups
\* generated by a power of a and a power of b, and the subgroup of index 3.
OtherLists ==
    { <<Pow(a, i), Pow(b, j)>> : i, j \in 1..MaxPow } \cup {RelationsIndex3}

\* The words of a relation list.
RelationWords(rels) == { rels[i] : i \in 1..Len(rels) }

\* relations + [word] is a list from_relations may be building.
MayPush(rels, word) ==
    \/ /\ Len(rels) < MaxRels
       /\ word \in Words
       /\ \A i \in 1..Len(rels) : rels[i] \in Words
    \/ \E sc \in Scenarios :
          /\ Len(rels) < Len(sc)
          /\ Append(rels, word) = SubSeq(sc, 1, Len(rels) + 1)

-----------------------------------------------------------------------------
(* The state machine: one subgroup object H built by from_relations and    *)
(* then queried.                                                           *)

VARIABLES
    elem,             \* Vertex.elem by Vertex.idx
    forward_edges,    \* Vertex.forward_edges by Vertex.idx
    backward_edges,   \* Vertex.backward_edges by Vertex.idx
    edge,             \* source, elem and target by Edge.idx
    identity_vertex,  \* H._identity_vertex
    Vertex_idx,       \* the class counter Vertex.idx
    Edge_idx,         \* the class counter Edge.idx
    glues,            \* the local list glues of the running _push_word
    deleted,          \* the vertices that Vertex.delete was called on
    cache,            \* H._cache
    raised,           \* the exception that ended a _push_word, or ""
    pc,               \* "idle", "glue" (in the glue loop), "raised", "normalizing"
    relations,        \* the words pushed so far
    ret,              \* the last query on H: operation, argument, outcome
    instance          \* H._cached_<method>, the entry for the argument F

vars == <<elem, forward_edges, backward_edges, edge, identity_vertex,
          Vertex_idx, Edge_idx, glues, deleted, cache, raised, pc,
          relations, ret, instance>>

\* The object H as a graph record.
Self ==
    [elem |-> elem, forward_edges |-> forward_edges,
     backward_edges |-> backward_edges, edge |-> edge,
     identity_vertex |-> identity_vertex, Vertex_idx |-> Vertex_idx,
     Edge_idx |-> Edge_idx, glues |-> glues, deleted |-> deleted,
     cache |-> cache, raised |-> raised]

\* H becomes the graph record G.
Becomes(G) ==
    /\ elem' = G.elem
    /\ forward_edges' = G.forward_edges
    /\ backward_edges' = G.backward_edges
    /\ edge' = G.edge
    /\ identity_vertex' = G.identity_vertex
    /\ Vertex_idx' = G.Vertex_idx
    /\ Edge_idx' = G.Edge_idx
    /\ glues' = G.glues
    /\ deleted' = G.deleted
    /\ cache' = G.cache
    /\ raised' = G.raised

\* H is the graph record G.
Is(G) ==
    /\ elem = G.elem
    /\ forward_edges = G.forward_edges
    /\ backward_edges = G.backward_edges
    /\ edge = G.edge
    /\ identity_vertex = G.identity_vertex
    /\ Vertex_idx = G.Vertex_idx
    /\ Edge_idx = G.Edge_idx
    /\ glues = G.glues
    /\ deleted = G.deleted
    /\ cache = G.cache
    /\ raised = G.raised

NoRet == [op |-> "", arg |-> <<>>, raised |-> "", value |-> 0]

\* A run is from_relations, then at most H.gens(), then one more query.
MayQuery == pc = "idle" /\ ret.op \in {"", "gens"}

\* SubgroupOfFreeGroup._new(free_group): res of from_relations.
Init ==
    /\ Is(NewGraph(0, 0))
    /\ pc = "idle"
    /\ relations = <<>>
    /\ ret = NoRet
    /\ instance = [has_finite_index_in |-> <<>>, is_normal_in |-> <<>>,
                   normalization_in |-> <<>>,
                   right_coset_representatives_in |-> <<>>,
                   core_in |-> <<>>, index_in |-> <<>>]

\* The wrapper of instance_cache: entry is the entry of the method's cache
\* for the argument, <<>> when there is none, and r the outcome of the
\* method.  An entry is returned as it is; otherwise the method runs and its
\* value is entered unless it raised.
instance_cache(entry, r) ==
    IF Len(entry) > 0
    THEN [result |-> [raised |-> "", value |-> entry[1]], entry |-> entry]
    ELSE [result |-> r,
          entry |-> IF r.raised = "" THEN <<r.value>> ELSE <<>>]

\* The record of a query: operation, argument, exception and value.
Ret(op, arg, r) ==
    [op |-> op, arg |-> arg, raised |-> r.raised, value |-> r.value]

\* The record of a query that cannot raise.
Val(op, arg, value) ==
    [op |-> op, arg |-> arg, raised |-> "", value |-> value]

\* res._push_word(relation) up to its glue loop, for the next relation of
\* from_relations.
PushWord(word) ==
    /\ pc = "idle"
    /\ ret.op = ""
    /\ cache = EmptyCache
    /\ MayPush(relations, word)
    /\ Becomes(push_word_begin(Self, word))
    /\ pc' = "glue"
    /\ relations' = Append(relations, word)
    /\ UNCHANGED <<ret, instance>>

\* One iteration of the glue loop of the running _push_word.
GlueStep ==
    /\ pc = "glue"
    /\ glues # <<>>
    /\ Becomes(glue_iteration(Self))
    /\ pc' = IF raised' # "" THEN "raised" ELSE "glue"
    /\ UNCHANGED <<relations, ret, instance>>

\* The glue list is empty: _push_word returns.
PushReturn ==
    /\ pc = "glue"
    /\ glues = <<>>
    /\ pc' = "idle"
    /\ UNCHANGED <<elem, forward_edges, backward_edges, edge,
                   identity_vertex, Vertex_idx, Edge_idx, glues, deleted,
                   cache, raised, relations, ret, instance>>

\* H.gens()
Gens ==
    /\ pc = "idle"
    /\ ret.op = ""
    /\ Becomes(gens_call(Self))
    /\ ret' = Val("gens", <<>>, cache'.gens[1])
    /\ UNCHANGED <<pc, relations, instance>>

\* H.contains_element(word)
ContainsElement(word) ==
    /\ MayQuery
    /\ ret' = Val("contains_element", word, contains_element(Self, word))
    /\ UNCHANGED <<elem, forward_edges, backward_edges, edge,
                   identity_vertex, Vertex_idx, Edge_idx, glues, deleted,
                   cache, raised, pc, relations, instance>>

\* H.express(word): _cycle_generators is called once an edge of a closed
\* walk is looked up.
Express(word) ==
    /\ MayQuery
    /\ ret' = Val("express", word, express(Self, word))
    /\ IF contains_element(Self, word) /\ word # identity
       THEN Becomes(cycle_generators_call(Self))
       ELSE UNCHANGED <<elem, forward_edges, backward_edges, edge,
                        identity_vertex, Vertex_idx, Edge_idx, glues,
                        deleted, cache, raised>>
    /\ UNCHANGED <<pc, relations, instance>>

\* H.has_finite_index_in(F)
HasFiniteIndexIn ==
    /\ MayQuery
    /\ \E r \in {instance_cache(instance.has_finite_index_in,
                   has_finite_index_in(Self, Ambient(Self),
                                       Ambient(Self).identity_vertex))} :
           /\ ret' = Ret("has_finite_index_in", <<>>, r.result)
           /\ instance' = [instance EXCEPT !.has_finite_index_in = r.entry]
    /\ IF Len(instance.has_finite_index_in) = 0
       THEN Becomes(gens_call(Self))
       ELSE UNCHANGED <<elem, forward_edges, backward_edges, edge,
                        identity_vertex, Vertex_idx, Edge_idx, glues,
                        deleted, cache, raised>>
    /\ UNCHANGED <<pc, relations>>

\* H.index_in(F)
IndexIn ==
    /\ MayQuery
    /\ \E r \in {instance_cache(instance.index_in,
                   index_in(Self, Ambient(Self),
                            Ambient(Self).identity_vertex))} :
           /\ ret' = Ret("index_in", <<>>, r.result)
           /\ instance' = [instance EXCEPT !.index_in = r.entry]
    /\ IF Len(instance.index_in) = 0
       THEN Becomes(gens_call(Self))
       ELSE UNCHANGED <<elem, forward_edges, backward_edges, edge,
                        identity_vertex, Vertex_idx, Edge_idx, glues,
                        deleted, cache, raised>>
    /\ UNCHANGED <<pc, relations>>

\* H.right_coset_representatives_in(F)
RightCosetRepresentativesIn ==
    /\ MayQuery
    /\ \E r \in {instance_cache(instance.right_coset_representatives_in,
                   right_coset_representatives_in(
                       Self, Ambient(Self), Ambient(Self).identity_vertex))} :
           /\ ret' = Ret("right_coset_representatives_in", <<>>, r.result)
           /\ instance' = [instance EXCEPT !.right_coset_representatives_in = r.entry]
    /\ IF Len(instance.right_coset_representatives_in) = 0
       THEN Becomes(gens_call(Self))
       ELSE UNCHANGED <<elem, forward_edges, backward_edges, edge,
                        identity_vertex, Vertex_idx, Edge_idx, glues,
                        deleted, cache, raised>>
    /\ UNCHANGED <<pc, relations>>

\* H.is_normal_in(F)
IsNormalIn ==
    /\ MayQuery
    /\ \E r \in {instance_cache(instance.is_normal_in,
                   is_normal_in(Self, Ambient(Self)))} :
           /\ ret' = Ret("is_normal_in", <<>>, r.result)
           /\ instance' = [instance EXCEPT !.is_normal_in = r.entry]
    /\ IF Len(instance.is_normal_in) = 0
       THEN Becomes(gens_call(Self))
       ELSE UNCHANGED <<elem, forward_edges, backward_edges, edge,
                        identity_vertex, Vertex_idx, Edge_idx, glues,
                        deleted, cache, raised>>
    /\ UNCHANGED <<pc, relations>>

\* H == H.conjugate(word): the conjugate is built from a copy, H.gens() is
\* called for the copy and for the comparison.
ConjugateEq(word) ==
    /\ MayQuery
    /\ ret' = Val("conjugate_eq", word,
                  Subgroup_eq(Self, Subgroup_conjugate(Self, word)))
    /\ Becomes(gens_call(Self))
    /\ UNCHANGED <<pc, relations, instance>>

\* K.index_in(H), H.index_in(F), K.index_in(F) for K = H of the state and
\* H = from_relations(F, rels).
IndexInNested(rels) ==
    /\ MayQuery
    /\ \E first \in vertices(from_relations(Vertex_idx, Edge_idx, rels)) :
           \E n \in {nested_indices(Self,
                                    from_relations(Vertex_idx, Edge_idx,
                                                   rels),
                                    first)} :
               \E r \in {instance_cache(instance.index_in, n.whole)} :
                   /\ ret' = Val("index_in_nested", rels,
                                 [n EXCEPT !.whole = r.result])
                   /\ instance' = [instance EXCEPT !.index_in = r.entry]
    /\ Becomes(gens_call(Self))
    /\ UNCHANGED <<pc, relations>>

\* H.normalization_in(F): the call has returned, or it is still in its loop
\* after MaxPasses passes.
NormalizationIn ==
    /\ MayQuery
    /\ \E r \in {instance_cache(instance.normalization_in,
                   normalization_in(Self, Ambient(Self)))} :
           /\ ret' = Ret("normalization_in", <<>>, r.result)
           /\ instance' = IF r.result.value.returned
                          THEN [instance EXCEPT !.normalization_in = r.entry]
                          ELSE instance
    /\ IF Len(instance.normalization_in) = 0
       THEN Becomes(gens_call(Self))
       ELSE UNCHANGED <<elem, forward_edges, backward_edges, edge,
                        identity_vertex, Vertex_idx, Edge_idx, glues,
                        deleted, cache, raised>>
    /\ pc' = IF ret'.value.returned THEN "idle" ELSE "normalizing"
    /\ UNCHANGED relations

\* intersect_subgroups(F, [H, from_relations(F, rels)])
Intersect(rels) ==
    /\ MayQuery
    /\ ret' = Val("intersect_subgroups", rels,
                  intersect_subgroups(
                      from_relations(Vertex_idx, Edge_idx, rels).Vertex_idx,
                      from_relations(Vertex_idx, Edge_idx, rels).Edge_idx,
                      <<Self, from_relations(Vertex_idx, Edge_idx, rels)>>))
    /\ Becomes(ret'.value.graphs[1])
    /\ UNCHANGED <<pc, relations, instance>>

\* H.core_in(F)
CoreIn ==
    /\ MayQuery
    /\ \E r \in {instance_cache(instance.core_in,
                   core_in(Self, Ambient(Self),
                           Ambient(Self).identity_vertex))} :
           /\ ret' = Ret("core_in", <<>>, r.result)
           /\ instance' = [instance EXCEPT !.core_in = r.entry]
    /\ IF Len(instance.core_in) = 0
       THEN Becomes(gens_call(Self))
       ELSE UNCHANGED <<elem, forward_edges, backward_edges, edge,
                        identity_vertex, Vertex_idx, Edge_idx, glues,
                        deleted, cache, raised>>
    /\ UNCHANGED <<pc, relations>>

\* The words H is conjugated by: the identity, the generators and their
\* inverses.
ConjugateWords == WordsUpTo(1)

Next ==
    \/ \E word \in Words \cup ScenarioWords : PushWord(word)
    \/ GlueStep
    \/ PushReturn
    \/ Gens
    \/ \E word \in QueryWords : ContainsElement(word)
    \/ \E word \in QueryWords \cup RelationWords(relations) : Express(word)
    \/ HasFiniteIndexIn
    \/ IndexIn
    \/ RightCosetRepresentativesIn
    \/ IsNormalIn
    \/ \E word \in ConjugateWords : ConjugateEq(word)
    \/ \E rels \in OtherLists : IndexInNested(rels)
    \/ NormalizationIn
    \/ \E rels \in OtherLists : Intersect(rels)
    \/ CoreIn

Spec == Init /\ [][Next]_vars

\* from_relations alone: the pushes of the relation words.
FromRelationsNext ==
    \/ \E word \in Words \cup ScenarioWords : PushWord(word)
    \/ GlueStep
    \/ PushReturn

\* The glue loop is running: the list of the running _push_word is not
\* empty.  This is when GlueStep is enabled, and a step taken then is a
\* GlueStep.
Gluing == pc = "glue" /\ glues # <<>>

\* The glue loop has ended and _push_word is about to return.  This is when
\* PushReturn is enabled, and a step taken then is a PushReturn.
Returning == pc = "glue" /\ glues = <<>>

\* from_relations runs without interruption: weak fairness of GlueStep and
\* of PushReturn, each written out as "infinitely often disabled or
\* infinitely often taken".
LiveSpec ==
    /\ Init /\ [][FromRelationsNext]_vars
    /\ ([]<>(~Gluing) \/ []<><<Gluing>>_vars)
    /\ ([]<>(~Returning) \/ []<><<Returning>>_vars)

-----------------------------------------------------------------------------
(* Properties                                                              *)

\* H._push_word(word) called on H itself after a query on H: nothing but
\* self._cache is flushed.  H was built from at most MaxRels words or from
\* a scenario list.
PushWordAgain(word) ==
    /\ pc = "idle"
    /\ ret.op # ""
    /\ Len(relations) <= MaxRels \/ relations \in Scenarios
    /\ Becomes(push_word_begin(Self, word))
    /\ pc' = "glue"
    /\ relations' = Append(relations, word)
    /\ ret' = NoRet
    /\ UNCHANGED instance

\* from_relations, queries that are cached, and _push_word between them.
CacheNext ==
    \/ \E word \in Words \cup ScenarioWords : PushWord(word)
    \/ GlueStep
    \/ PushReturn
    \/ Gens
    \/ HasFiniteIndexIn
    \/ IndexIn
    \/ RightCosetRepresentativesIn
    \/ IsNormalIn
    \/ \E word \in {a, b} : PushWordAgain(word)

CacheSpec == Init /\ [][CacheNext]_vars

\* The letters of a word over an arbitrary alphabet.
LettersOf(word) == { word[i][1] : i \in 1..Len(word) }

\* Every vertex of the graph has Rank forward and Rank backward edges.
Complete(G) ==
    \A v \in vertices_body(G) :
        Len(G.forward_edges[v]) = Rank /\ Len(G.backward_edges[v]) = Rank

\* The words of a relation list and their inverses.
SignedRelations(rels) ==
    RelationWords(rels) \cup { invert(w) : w \in RelationWords(rels) }

\* The products p * s of a word of P and a word of S, with P itself.
Extend(P, S) == P \cup { Mul(p, s) : p \in P, s \in S }

RECURSIVE Products(_, _)
\* The products of at most n words of S.
Products(S, n) ==
    IF n = 0 THEN {identity} ELSE Extend(Products(S, n - 1), S)

\* The number of vertices of the graph.
VertexCount(G) == Cardinality(vertices_body(G))

\* The number of edges of the graph.
EdgeCount(G) == Cardinality(edges_body(G, vertices_body(G)))

\* C1: from_relations never fails internally: no _push_word ends in an
\* exception of Edge.__init__ (slot occupied), Edge.delete (the popped entry
\* is missing or another edge) or Vertex.delete (edges remain).
C1_NoInternalFailure == raised = "" /\ pc # "raised"

\* A _push_word has returned after gluing vertices away and creating edges
\* while rehoming.
C1_Witness ==
    /\ pc = "idle"
    /\ Cardinality(deleted) >= 2
    /\ Len(relations) = MaxRels
    /\ \E e \in DOMAIN edge :
           /\ edge[e].source \notin deleted
           /\ edge[e].target \notin deleted
           /\ DictGet(forward_edges[edge[e].source], edge[e].elem) = e
           /\ \E d \in DOMAIN edge :
                  d < e /\ (edge[d].source \in deleted
                            \/ edge[d].target \in deleted)

\* C2: once from_relations has returned, contains_element is true for the
\* identity, for every relation word, for its inverse and for every product
\* of at most MaxProd relation words and inverses.
C2_RelationsGenerateMembers ==
    pc = "idle" =>
        \A w \in Products(SignedRelations(relations), MaxProd) :
            contains_element(Self, w)

\* contains_element has answered true for a product of the two relation
\* words, or of one and the inverse of the other, that is neither the
\* identity nor a relation word nor the inverse of one.
C2_Witness ==
    /\ ret.op = "contains_element"
    /\ ret.value
    /\ Len(relations) = 2
    /\ ret.arg \in { Mul(relations[1], relations[2]),
                     Mul(relations[2], invert(relations[1])) }
    /\ ret.arg \notin Products(SignedRelations(relations), 1)

\* The result of express for the word w agrees with membership: None when w
\* is not contained, else a word over the basis that multiplies out to w.
ExpressAgrees(G, w, res) ==
    /\ res.none <=> ~contains_element(G, w)
    /\ ~res.none =>
          /\ LettersOf(res.word) \subseteq RelationWords(gens(G))
          /\ evaluate(res.word) = w

C4_RankBound == ret.op = "gens" => Len(ret.value) <= Len(relations)

\* gens() has returned a basis that is smaller than a relation list without
\* the identity, and not empty.
C4_Witness ==
    /\ ret.op = "gens"
    /\ Len(ret.value) >= 1
    /\ Len(ret.value) < Len(relations)
    /\ identity \notin RelationWords(relations)

\* C5: after gens(), the number of basis edges is |edges| - |vertices| + 1,
\* and the basis words are pairwise different and none is the inverse of
\* another.
C5_BasisCount ==
    ret.op = "gens" =>
        /\ Len(cache.cycle_generators[1])
               = EdgeCount(Self) - VertexCount(Self) + 1
        /\ Len(ret.value) = Len(cache.cycle_generators[1])
        /\ \A i, j \in 1..Len(ret.value) :
               i # j => /\ ret.value[i] # ret.value[j]
                        /\ ret.value[i] # invert(ret.value[j])

\* gens() has returned two basis words or more on a graph of three vertices
\* or more.
C5_Witness ==
    /\ ret.op = "gens"
    /\ Len(ret.value) >= 2
    /\ VertexCount(Self) >= 3

\* C6: has_finite_index_in(F) returns true iff every vertex has Rank
\* outgoing and Rank incoming edges.
C6_FiniteIndexIffComplete ==
    ret.op = "has_finite_index_in" =>
        /\ ret.raised = ""
        /\ ret.value <=> Complete(Self)

\* C7: on a graph that is not complete, index_in(F) and
\* right_coset_representatives_in(F) raise the finite-index ValueError and
\* return nothing.
C7_TypedFiniteIndexError ==
    /\ ret.op \in {"index_in", "right_coset_representatives_in"}
    /\ ~Complete(Self)
    => ret.raised = "ValueError: must have finite index"

\* C8: a value idx returned by index_in(F) is the number of vertices, and
\* rank() = idx * (Rank - 1) + 1.
C8_IndexAndRankFormula ==
    ret.op = "index_in" /\ ret.raised = "" =>
        /\ ret.value = VertexCount(Self)
        /\ rank(Self) = ret.value * (Rank - 1) + 1

\* C9 as stated: the subgroup built from a^2, b^3, commutator(a, b) has
\* index 6 and a basis of 7 elements.
C9_IndexSixRankSeven ==
    relations = RelationsS3 /\ ret.op = "index_in" =>
        /\ ret.raised = ""
        /\ ret.value = 6
        /\ rank(Self) = 7

\* C9: the subgroup built from a^2, b^3, commutator(a, b) has a basis of 3
\* elements, and its graph has 5 vertices and is not complete.
C9_RankThreeNotComplete ==
    relations = RelationsS3 /\ ret.op = "gens" =>
        /\ Len(ret.value) = 3
        /\ VertexCount(Self) = 5
        /\ ~Complete(Self)

\* gens() has returned for the subgroup built from a^2, b^3,
\* commutator(a, b).
C9_Witness == relations = RelationsS3 /\ ret.op = "gens" /\ pc = "idle"

\* C10: the subgroup built from a, b^2, (a^2).conjugate(b),
\* b.conjugate(b*a) has index 3 and rank 4, is not normal, equals its
\* conjugate by a and differs from its conjugate by b.
C10_IndexThreeNotNormal ==
    relations = RelationsIndex3 /\ pc = "idle" =>
        /\ rank(Self) = 4
        /\ ret.op = "index_in" => ret.raised = "" /\ ret.value = 3
        /\ ret.op = "is_normal_in" => ret.raised = "" /\ ~ret.value
        /\ ret.op = "conjugate_eq" /\ ret.arg = a => ret.value
        /\ ret.op = "conjugate_eq" /\ ret.arg = b => ~ret.value

\* H == H.conjugate(b) has answered false for that subgroup.
C10_Witness ==
    /\ relations = RelationsIndex3
    /\ ret.op = "conjugate_eq"
    /\ ret.arg = b
    /\ ~ret.value

\* C11: is_normal_in(F) returns true iff H equals its conjugate by every
\* generator of F and by every inverse of one; the full subgroup, the
\* trivial subgroup and the subgroup of tests.py lines 114-116 are reported
\* normal, and subgroup([a]) is not.
C11_NormalIffFixedByGenerators ==
    ret.op = "is_normal_in" =>
        /\ ret.raised = ""
        /\ ret.value <=> \A x \in paths(1) :
                             Subgroup_eq(Self, Subgroup_conjugate(Self, x))
        /\ relations \in {<<>>, FreeGroup_gens, RelationsNormal} => ret.value
        /\ relations = <<a>> => ~ret.value

\* is_normal_in(F) has answered true for the subgroup of tests.py lines
\* 114-116, whose graph has four vertices.
C11_Witness ==
    /\ ret.op = "is_normal_in"
    /\ ret.value
    /\ relations = RelationsNormal
    /\ VertexCount(Self) = 4

\* C12 as stated: H.contains_element(h) iff
\* H.conjugate(w).contains_element(w^-1 * h * w).
C12_ConjugateIsInverseConjugation ==
    ret.op = "conjugate_eq" =>
        \A h \in QueryWords :
            contains_element(Self, h)
            <=> contains_element(Subgroup_conjugate(Self, ret.arg),
                                 conjugate(h, invert(ret.arg)))

\* C12: H.contains_element(h) iff
\* H.conjugate(w).contains_element(w * h * w^-1): the conjugate is the set
\* of the h.conjugate(w) = w * h * w^-1.
C12_ConjugateIsConjugation ==
    ret.op = "conjugate_eq" =>
        \A h \in QueryWords :
            contains_element(Self, h)
            <=> contains_element(Subgroup_conjugate(Self, ret.arg),
                                 conjugate(h, ret.arg))

\* H has been conjugated by a word that moves it: H contains a word h and
\* not w * h * w^-1.
C12_Witness ==
    /\ ret.op = "conjugate_eq"
    /\ ~ret.value
    /\ \E h \in QueryWords :
           /\ contains_element(Self, h)
           /\ ~contains_element(Self, conjugate(h, ret.arg))

\* C13: when H.index_in(F) returns a value, H.conjugate(w).index_in(F)
\* returns the same value.
C13_ConjugationKeepsIndex ==
    /\ ret.op = "conjugate_eq"
    /\ index_in(Self, Ambient(Self),
                Ambient(Self).identity_vertex).raised = ""
    => index_in(Subgroup_conjugate(Self, ret.arg), Ambient(Self),
                Ambient(Self).identity_vertex)
           = index_in(Self, Ambient(Self), Ambient(Self).identity_vertex)

\* C14: for K <= H <= F, when K.index_in(H) and H.index_in(F) return
\* values, K.index_in(F) returns their product.
C14_IndexMultiplicative ==
    /\ ret.op = "index_in_nested"
    /\ ret.value.inner.raised = ""
    /\ ret.value.outer.raised = ""
    => /\ ret.value.whole.raised = ""
       /\ ret.value.whole.value
              = ret.value.inner.value * ret.value.outer.value

\* C15: when N = H.normalization_in(F) returns, N is normal in F and
\* contains H, and when H was normal already, N equals H and the first pass
\* pushed no word.
C15_NormalizationIsNormalClosure ==
    ret.op = "normalization_in" /\ ret.value.returned =>
        /\ ret.raised = ""
        /\ is_normal_in(ret.value.N, Ambient(ret.value.N)).value
        /\ contains_subgroup(ret.value.N, Self)
        /\ is_normal_in(Self, Ambient(Self)).value =>
              Subgroup_eq(ret.value.N, Self) /\ ret.value.passes = 1

\* normalization_in(F) has returned after a pass that pushed words, for a
\* subgroup that is not normal.
C15_Witness ==
    /\ ret.op = "normalization_in"
    /\ ret.value.returned
    /\ ret.value.passes = 2
    /\ ~is_normal_in(Self, Ambient(Self)).value
    /\ ~Subgroup_eq(ret.value.N, Self)

\* C16: a normalization call bounded by MaxPasses closure passes has
\* stopped after them: it has returned or it has reported a failure.
C16_BoundedNormalizationStops ==
    ret.op = "normalization_in" =>
        ret.value.returned \/ ret.raised # ""

\* C17: the result of intersect_subgroups contains a word iff every input
\* contains it; the product vertices and the tuples of input vertices
\* correspond one to one; and a gen-edge joins two product vertices iff
\* every input has the gen-edge between their components.
C17_IntersectionIsProduct ==
    ret.op = "intersect_subgroups" =>
        /\ ret.value.res.raised = ""
        /\ \A w \in QueryWords :
               contains_element(ret.value.res, w)
               <=> \A i \in 1..Len(ret.value.graphs) :
                       contains_element(ret.value.graphs[i], w)
        /\ { ret.value.mapping_back[j][2] :
                 j \in 1..Len(ret.value.mapping_back) }
               = vertices_body(ret.value.res)
        /\ \A j, k \in 1..Len(ret.value.mapping_back) :
               /\ j # k => /\ ret.value.mapping_back[j][1]
                                  # ret.value.mapping_back[k][1]
                           /\ ret.value.mapping_back[j][2]
                                  # ret.value.mapping_back[k][2]
               /\ \A gen \in Letters :
                      walk_edge(ret.value.res, ret.value.mapping_back[j][2],
                                gen, 1) = ret.value.mapping_back[k][2]
                      <=> \A i \in 1..Len(ret.value.graphs) :
                              walk_edge(ret.value.graphs[i],
                                        ret.value.mapping_back[j][1][i],
                                        gen, 1)
                                  = ret.value.mapping_back[k][1][i]

\* intersect_subgroups has returned a graph of three vertices or more that
\* contains a word other than the identity, for an H that contains a word
\* the result does not.
C17_Witness ==
    /\ ret.op = "intersect_subgroups"
    /\ VertexCount(ret.value.res) >= 3
    /\ \E w \in QueryWords :
           w # identity /\ contains_element(ret.value.res, w)
    /\ \E w \in QueryWords :
           contains_element(Self, w) /\ ~contains_element(ret.value.res, w)

\* C18: intersect_subgroups leaves its inputs as they were: H keeps its
\* vertices, edges, basepoint and labels, the second input is the graph
\* that from_relations built, and the result has no vertex or edge of an
\* input.
C18_IntersectLeavesInputs ==
    [][ret'.op = "intersect_subgroups" =>
          /\ UNCHANGED <<elem, forward_edges, backward_edges, edge,
                         identity_vertex>>
          /\ ret'.value.graphs[2]
                 = from_relations(Vertex_idx, Edge_idx, ret'.arg)
          /\ \A i \in 1..Len(ret'.value.graphs) :
                 /\ DOMAIN ret'.value.res.elem
                        \cap DOMAIN ret'.value.graphs[i].elem = {}
                 /\ DOMAIN ret'.value.res.edge
                        \cap DOMAIN ret'.value.graphs[i].edge = {}]_vars

\* intersect_subgroups has returned after visiting a pair of vertices where
\* H lacks a direction that the second input has.
C18_Witness ==
    /\ ret.op = "intersect_subgroups"
    /\ VertexCount(ret.value.res) >= 2
    /\ \E j \in 1..Len(ret.value.mapping_back) : \E gen \in Letters :
           /\ walk_edge(ret.value.graphs[1],
                        ret.value.mapping_back[j][1][1], gen, 1) = None
           /\ walk_edge(ret.value.graphs[2],
                        ret.value.mapping_back[j][1][2], gen, 1) # None

\* C19: H.conjugate(w) and H.core_in(F) leave the graph of H as it was:
\* the same vertices, edges and basepoint, and the same label on every
\* vertex.
C19_ConjugateAndCoreLeaveH ==
    [][ret'.op \in {"conjugate_eq", "core_in"} =>
          UNCHANGED <<elem, forward_edges, backward_edges, edge,
                      identity_vertex>>]_vars

Labelled(G) ==
    /\ G.elem[G.identity_vertex] = identity
    /\ \A v \in vertices_body(G) :
           /\ walk_word(G, G.identity_vertex, G.elem[v]).ok
           /\ walk_word(G, G.identity_vertex, G.elem[v]).vertex = v

\* C21: whenever no operation is in progress (after from_relations, after
\* each _push_word, after _relabel, after conjugate and after
\* intersect_subgroups) the basepoint's label is the identity and the walk
\* of every vertex's label from the basepoint ends at that vertex, so no
\* two vertices of a graph carry the same label.
C21_LabelsWalkToVertices ==
    /\ pc = "idle" =>
           /\ Labelled(Self)
           /\ Labelled(relabel(Self))
           /\ \A v, w \in vertices_body(Self) : v # w => elem[v] # elem[w]
    /\ ret.op = "conjugate_eq" =>
           Labelled(Subgroup_conjugate(Self, ret.arg))
    /\ ret.op = "intersect_subgroups" => Labelled(ret.value.res)

\* from_relations has returned a graph, not relabelled, in which a label
\* was assigned by a step backwards and gluing deleted vertices.
C21_Witness ==
    /\ pc = "idle"
    /\ ret.op = ""
    /\ cache = EmptyCache
    /\ Len(relations) = MaxRels
    /\ deleted # {}
    /\ \E v \in vertices_body(Self) :
           /\ elem[v] # identity
           /\ elem[v][Len(elem[v])][2] < 0

\* C22: every iteration of the glue loop creates no vertex and either pops
\* a pair of identical vertices and changes nothing else, or deletes
\* exactly one vertex; and the loop ends with an empty glue list, after
\* which _push_word returns.
C22_GlueLoopShrinksAndEnds ==
    /\ [](Gluing => Self # glue_iteration(Self))
    /\ [][Gluing =>
             /\ Vertex_idx' = Vertex_idx
             /\ DOMAIN elem' = DOMAIN elem
             /\ IF glues[Len(glues)][1] = glues[Len(glues)][2]
                THEN /\ glues' = SubSeq(glues, 1, Len(glues) - 1)
                     /\ UNCHANGED <<elem, forward_edges, backward_edges,
                                    edge, identity_vertex, Edge_idx,
                                    deleted>>
                ELSE /\ deleted \subseteq deleted'
                     /\ Cardinality(deleted') = Cardinality(deleted) + 1
                     /\ Cardinality(vertices_body(Self'))
                            <= Cardinality(vertices_body(Self))]_vars
    /\ Gluing ~> (pc = "idle" /\ glues = <<>>)

\* The glue loop is about to pop a pair of identical vertices that it made
\* itself by deleting a vertex: the word being pushed was not accepted
\* before this _push_word.
C22_Witness ==
    /\ Gluing
    /\ glues[Len(glues)][1] = glues[Len(glues)][2]
    /\ deleted # {}
    /\ ~contains_element(
            from_relations(0, 0, SubSeq(relations, 1, Len(relations) - 1)),
            relations[Len(relations)])

-----------------------------------------------------------------------------
\* Every edge held by a live vertex of G has its image in G1: the walks of
\* the labels of its endpoints in G1 end at two vertices joined by an edge
\* with the same generator.
EdgesKept(G, G1) ==
    \A v \in DOMAIN G.elem \ G.deleted :
        \A i \in 1..Len(G.forward_edges[v]) :
            /\ walk_word(G1, G1.identity_vertex, G.elem[v]).ok
            /\ walk_word(G1, G1.identity_vertex,
                         G.elem[G.edge[G.forward_edges[v][i][2]].target]).ok
            /\ walk_edge(G1,
                         walk_word(G1, G1.identity_vertex, G.elem[v]).vertex,
                         G.forward_edges[v][i][1], 1)
                   = walk_word(G1, G1.identity_vertex,
                         G.elem[G.edge[G.forward_edges[v][i][2]].target]).vertex

\* C23: after _push_word returns, every vertex that was created and not
\* deleted is reachable from the basepoint; no edge held by a live vertex has
\* a deleted source or target; and throughout the glue phase every edge the
\* graph holds is found again, with the same generator and between the merged
\* endpoints, in the graph the glue loop ends with.
C23_FoldingKeepsGraph ==
    /\ pc = "idle" =>
           /\ DOMAIN elem \ deleted = vertices_body(Self)
           /\ \A v \in DOMAIN elem \ deleted :
                  /\ \A i \in 1..Len(forward_edges[v]) :
                         /\ edge[forward_edges[v][i][2]].source = v
                         /\ edge[forward_edges[v][i][2]].elem
                                = forward_edges[v][i][1]
                         /\ edge[forward_edges[v][i][2]].target \notin deleted
                  /\ \A i \in 1..Len(backward_edges[v]) :
                         /\ edge[backward_edges[v][i][2]].target = v
                         /\ edge[backward_edges[v][i][2]].elem
                                = backward_edges[v][i][1]
                         /\ edge[backward_edges[v][i][2]].source \notin deleted
    /\ pc = "glue" =>
           /\ glue_loop(Self).raised = ""
           /\ EdgesKept(Self, glue_loop(Self))

\* _push_word has returned after deleting a vertex, and an edge that was
\* created is no longer held by its source: it was merged.
C23_Witness ==
    /\ pc = "idle" /\ ret.op = ""
    /\ deleted # {}
    /\ Cardinality(vertices_body(Self)) >= 2
    /\ \E e \in DOMAIN edge :
           /\ edge[e].source \notin deleted
           /\ DictGet(forward_edges[edge[e].source], edge[e].elem) # e


-----------------------------------------------------------------------------
\* The order that Word.__lt__ is documented to be, on the unit steps of two
\* reduced words: the shorter word first; at equal length the first step
\* that differs decides, a < a^-1 < b < b^-1.
Shortlex(u, v) ==
    \/ Len(Steps(u)) < Len(Steps(v))
    \/ /\ Len(Steps(u)) = Len(Steps(v))
       /\ \E i \in 1..Len(Steps(u)) :
              /\ SubSeq(Steps(u), 1, i - 1) = SubSeq(Steps(v), 1, i - 1)
              /\ 2 * Steps(u)[i][1] - Steps(u)[i][2]
                     < 2 * Steps(v)[i][1] - Steps(v)[i][2]

\* What _relabel is to leave behind in G: the label of every vertex is the
\* least reduced word that walks from the basepoint to it, and the edges
\* with target.elem = source.elem * gen are |vertices| - 1 in number and join
\* every vertex but the basepoint to the vertex of a smaller label.
MinimalLabels(G) ==
    /\ \A v \in vertices_body(G) :
           /\ walk_word(G, G.identity_vertex, G.elem[v]).ok
           /\ walk_word(G, G.identity_vertex, G.elem[v]).vertex = v
           /\ \A w \in WordsUpTo(length(G.elem[v])) :
                  (/\ walk_word(G, G.identity_vertex, w).ok
                   /\ walk_word(G, G.identity_vertex, w).vertex = v)
                      => ~Shortlex(w, G.elem[v])
           /\ v # G.identity_vertex =>
                  \E e \in edges_body(G, vertices_body(G)) :
                      /\ edge_value(G, e) = identity
                      /\ v \in {G.edge[e].source, G.edge[e].target}
                      /\ \E u \in {G.edge[e].source, G.edge[e].target} :
                             Shortlex(G.elem[u], G.elem[v])
    /\ Cardinality({ e \in edges_body(G, vertices_body(G)) :
                         G.elem[G.edge[e].target]
                             = Mul(G.elem[G.edge[e].source],
                                   Gen(G.edge[e].elem)) })
           = Cardinality(vertices_body(G)) - 1

-----------------------------------------------------------------------------
\* C27: in every glue step on a pair of two different vertices the labels of
\* the two differ, the vertex with the greater label is the one deleted, the
\* other is kept, and the basepoint is not the deleted one; the basepoint is
\* never deleted, never changes, and the edges in its indices are its own.
C27_SmallerLabelSurvives ==
    /\ [](/\ identity_vertex \in DOMAIN elem \ deleted
          /\ \A i \in 1..Len(forward_edges[identity_vertex]) :
                 edge[forward_edges[identity_vertex][i][2]].source
                     = identity_vertex
          /\ \A i \in 1..Len(backward_edges[identity_vertex]) :
                 edge[backward_edges[identity_vertex][i][2]].target
                     = identity_vertex)
    /\ [][identity_vertex' = identity_vertex]_vars
    /\ [][(Gluing /\ glues[Len(glues)][1] # glues[Len(glues)][2]) =>
              /\ elem[glues[Len(glues)][1]] # elem[glues[Len(glues)][2]]
              /\ \E v0, v1 \in {glues[Len(glues)][1], glues[Len(glues)][2]} :
                     /\ lt(elem[v1], elem[v0])
                     /\ deleted' = deleted \cup {v0}
                     /\ v0 \notin deleted
                     /\ v1 \notin deleted'
                     /\ v0 # identity_vertex
                     /\ forward_edges'[v0] = <<>>
                     /\ backward_edges'[v0] = <<>>]_vars

\* The glue loop is about to glue a pair whose first vertex has the smaller
\* label, after an earlier step of the same _push_word deleted a vertex.
C27_Witness ==
    /\ Gluing
    /\ glues[Len(glues)][1] # glues[Len(glues)][2]
    /\ lt(elem[glues[Len(glues)][1]], elem[glues[Len(glues)][2]])
    /\ glues[Len(glues)][1] \notin deleted
    /\ Cardinality(deleted) >= 2


-----------------------------------------------------------------------------
\* C28: pushing words never removes membership.  Whenever _push_word has
\* returned, H accepts every relation pushed so far and every word that the
\* graph of any shorter prefix of the relations accepted; H with an added
\* element accepts the element and every word H accepts; and the graph that
\* normalization_in pushes conjugates on accepts every word H accepts.
C28_PushKeepsMembership ==
    /\ pc = "idle" =>
           /\ \A i \in 1..Len(relations) : contains_element(Self, relations[i])
           /\ \A k \in 0..Len(relations) :
                  \A P \in {from_relations(0, 0, SubSeq(relations, 1, k))} :
                      \A q \in QueryWords :
                          contains_element(P, q) => contains_element(Self, q)
    /\ MayQuery =>
           \A word \in Words :
               \A R \in {with_added_elements(Self, <<word>>)} :
                   /\ R.raised = ""
                   /\ contains_element(R, word)
                   /\ \A q \in QueryWords :
                          contains_element(Self, q) => contains_element(R, q)
    /\ (ret.op = "normalization_in" /\ ret.raised = "") =>
           \A q \in QueryWords :
               contains_element(Self, q) => contains_element(ret.value.N, q)

\* from_relations has pushed a word that merged vertices: H accepts a word
\* that the graph before the last push did not, and that graph accepted a
\* word other than the identity.
C28_Witness ==
    /\ pc = "idle" /\ ret.op = ""
    /\ Len(relations) >= 2
    /\ deleted # {}
    /\ \E q \in QueryWords :
           /\ contains_element(Self, q)
           /\ ~contains_element(
                  from_relations(0, 0,
                                 SubSeq(relations, 1, Len(relations) - 1)), q)
    /\ \E q \in QueryWords \ {identity} :
           contains_element(
               from_relations(0, 0, SubSeq(relations, 1, Len(relations) - 1)),
               q)


-----------------------------------------------------------------------------
\* C29: the subgroup that from_relations builds does not depend on the order
\* of the relations.  For every reordering of the relations pushed so far,
\* from_relations gives a graph that is == H, has as many vertices and edges
\* as H, and accepts the same words; and H.copy() == H with the same counts.
C29_OrderOfRelationsIrrelevant ==
    (pc = "idle" /\ ret.op = "") =>
        /\ \A f \in Permutations(1..Len(relations)) :
               \A R \in {from_relations(0, 0,
                             [i \in 1..Len(relations) |-> relations[f[i]]])} :
                   /\ R.raised = ""
                   /\ Subgroup_eq(Self, R)
                   /\ Subgroup_eq(R, Self)
                   /\ VertexCount(R) = VertexCount(Self)
                   /\ EdgeCount(R) = EdgeCount(Self)
                   /\ \A q \in QueryWords :
                          contains_element(R, q) <=> contains_element(Self, q)
        /\ \A R \in {copy(Self)} :
               /\ R.raised = ""
               /\ Subgroup_eq(R, Self)
               /\ Subgroup_eq(Self, R)
               /\ VertexCount(R) = VertexCount(Self)
               /\ EdgeCount(R) = EdgeCount(Self)
               /\ \A q \in QueryWords :
                      contains_element(R, q) <=> contains_element(Self, q)

\* from_relations has built H from three relations or more, folding on the
\* way, and a reordering of them leaves other labels on the vertices.
C29_Witness ==
    /\ pc = "idle" /\ ret.op = ""
    /\ Len(relations) >= 3
    /\ deleted # {}
    /\ VertexCount(Self) >= 3
    /\ \E f \in Permutations(1..Len(relations)) :
           from_relations(0, 0,
               [i \in 1..Len(relations) |-> relations[f[i]]]).elem # elem


-----------------------------------------------------------------------------
\* reps are right coset representatives of G in K, for the words of QueryWords
\* that K contains: as many as index_in counts, all in K, no two in the same
\* right coset of G, every word of K in the coset of one; and left holds
\* their inverses.
CosetRepresentatives(G, K, reps, index, left) ==
    /\ reps.raised = "" /\ index.raised = "" /\ left.raised = ""
    /\ Len(reps.value) = index.value
    /\ \A i \in 1..Len(reps.value) : contains_element(K, reps.value[i])
    /\ \A i, j \in 1..Len(reps.value) :
           i # j => ~contains_element(G, Mul(reps.value[i],
                                             invert(reps.value[j])))
    /\ \A k \in QueryWords :
           contains_element(K, k) =>
               \E i \in 1..Len(reps.value) :
                   contains_element(G, Mul(k, invert(reps.value[i])))
    /\ { left.value[i] : i \in 1..Len(left.value) }
           = { invert(reps.value[i]) : i \in 1..Len(reps.value) }
    /\ Len(left.value) = Len(reps.value)

\* C26: for H of finite index in K, right_coset_representatives_in(K)
\* returns index_in(K) words of K, one in every right coset of H in K, and
\* left_coset_representatives_in(K) returns their inverses.  Stated for
\* K = F, where finite index means that H's graph is complete, and for the
\* subgroups K of OtherLists that contain H, where it means that every
\* vertex of H has the degrees of the vertex of K its label walks to.
C26_CosetRepresentatives ==
    ret.op = "right_coset_representatives_in" =>
        /\ Complete(Self) =>
               /\ ret.raised = ""
               /\ CosetRepresentatives(
                      Self, Ambient(Self), ret,
                      index_in(Self, Ambient(Self),
                               Ambient(Self).identity_vertex),
                      left_coset_representatives_in(
                          Self, Ambient(Self), Ambient(Self).identity_vertex))
        /\ \A rels \in OtherLists :
               \A K \in {from_relations(Vertex_idx, Edge_idx, rels)} :
                   (/\ contains_subgroup(K, Self)
                    /\ \A v \in vertices_body(Self) :
                           /\ walk_word(K, K.identity_vertex, elem[v]).ok
                           /\ same_degrees(
                                  K, Self, v,
                                  walk_word(K, K.identity_vertex, elem[v])))
                   => \A first \in vertices(K) :
                          CosetRepresentatives(
                              Self, K,
                              right_coset_representatives_in(Self, K, first),
                              index_in(Self, K, first),
                              left_coset_representatives_in(Self, K, first))

\* right_coset_representatives_in(F) has returned three words or more for
\* a complete graph, one of them of two letters.
C26_Witness ==
    /\ ret.op = "right_coset_representatives_in"
    /\ ret.raised = ""
    /\ Complete(Self)
    /\ Len(ret.value) >= 3
    /\ \E i \in 1..Len(ret.value) : length(ret.value[i]) >= 2


-----------------------------------------------------------------------------
\* C30: walk_commensurable_word returns the same word for any two words of
\* the same right coset of H, and queries on H between two calls do not
\* change the word it returns for a word.
C30_CosetRepresentativeStable ==
    /\ [](pc = "idle" =>
              \A u, w \in QueryWords :
                  (/\ walk_commensurable_word(Self, u).raised = ""
                   /\ walk_commensurable_word(Self, w).raised = ""
                   /\ contains_element(Self, Mul(u, invert(w))))
                  => walk_commensurable_word(Self, u)
                         = walk_commensurable_word(Self, w))
    /\ [][(pc = "idle" /\ pc' = "idle" /\ relations' = relations) =>
              \A w \in QueryWords :
                  walk_commensurable_word(Self', w)
                      = walk_commensurable_word(Self, w)]_vars


-----------------------------------------------------------------------------
\* C25: no query returns a result computed before a _push_word.  What
\* self._cache holds for _vertices, _edges and gens is what the method
\* computes on the graph as it is, and the result of has_finite_index_in,
\* is_normal_in, index_in and right_coset_representatives_in with the
\* argument F is the result the method computes on the graph as it is.
C25_PushInvalidatesCaches ==
    /\ Len(cache.vertices) > 0 => cache.vertices[1] = vertices_body(Self)
    /\ Len(cache.edges) > 0
           => cache.edges[1] = edges_body(Self, vertices_body(Self))
    /\ Len(cache.gens) > 0 => cache.gens[1] = gens(flush(Self))
    /\ ret.op = "gens" => ret.value = gens(flush(Self))
    /\ ret.op = "has_finite_index_in" =>
           ret = Ret("has_finite_index_in", <<>>,
                     has_finite_index_in(Self, Ambient(Self),
                                         Ambient(Self).identity_vertex))
    /\ ret.op = "is_normal_in" =>
           ret = Ret("is_normal_in", <<>>, is_normal_in(Self, Ambient(Self)))
    /\ ret.op = "index_in" =>
           ret = Ret("index_in", <<>>,
                     index_in(Self, Ambient(Self),
                              Ambient(Self).identity_vertex))
    /\ ret.op = "right_coset_representatives_in" =>
           \A r \in {right_coset_representatives_in(
                         Self, Ambient(Self), Ambient(Self).identity_vertex)} :
               /\ ret.raised = r.raised
               /\ { ret.value[i] : i \in 1..Len(ret.value) }
                      = { r.value[i] : i \in 1..Len(r.value) }


=============================================================================
